---- MODULE Spec2Model ----
(***************************************************************************)
(* delta_cmd: which packages of a cargo workspace are affected by the      *)
(* files changed in the last commit, and the command run on them.          *)
(*                                                                         *)
(* Strings and paths are sequences of one-character strings, so that the   *)
(* byte-wise prefix lookup of the radix trie, the component-wise           *)
(* operations of std::path, the extension filter, the template rendering   *)
(* and the shell word splitting are computed the way the program computes  *)
(* them.                                                                   *)
(***************************************************************************)
EXTENDS Integers, Sequences, FiniteSets, TLC

VARIABLES
    pc,                         \* position in main
    metadata,                   \* result of `cargo metadata` (cargo.rs:20)
    diff,                       \* result of the diff of HEAD against its parent (repository.rs:17-34)
    considered_files,           \* repository::get_changed_source_files (main.rs:143)
    file_idx,                   \* index of the next file of the seeding loop
    packages,                   \* Trie<PathBuf, Package> (main.rs:155)
    trie_keys,                  \* the keys of the trie in its iteration order
    scan_idx,                   \* index of the next key of the for loop over the trie
    changed_packages,           \* BTreeSet<PathBuf> (main.rs:157)
    end_package_names,          \* BTreeSet<&str> (main.rs:159)
    changed_packages_previous,  \* main.rs:168
    scans,                      \* number of full scans of the while loop so far
    subcommand,                 \* the command line: RunCommand variant and --command
    no_run,                     \* RequiredArgs::no_run
    args,                       \* RequiredArgs::args
    cmd,                        \* result of generate_command
    printed,                    \* the lines written to stdout, in order
    spawned,                    \* number of child processes started
    child,                      \* the child process: state and exit code
    exit_code                   \* exit status of the tool itself

vars == <<pc, metadata, diff, considered_files, file_idx, packages, trie_keys, scan_idx,
          changed_packages,
          end_package_names, changed_packages_previous, scans, subcommand,
          no_run, args, cmd, printed, spawned, child, exit_code>>

(***************************************************************************)
(* Bounds of the model.                                                    *)
(***************************************************************************)
MaxDeps == 1        \* declared dependencies per workspace member
MaxFiles == 2       \* changed paths per commit
MaxArgs == 1        \* extra arguments per run

(***************************************************************************)
(* Characters and strings.                                                 *)
(***************************************************************************)
\* The byte value of a character (ASCII), the order of BTreeSet<&str> and of
\* the trie's keys.
Byte(c) ==
    CASE c = " " -> 32 [] c = "\"" -> 34 [] c = "#" -> 35 [] c = "'" -> 39
      [] c = "-" -> 45 [] c = "." -> 46 [] c = "/" -> 47 [] c = "C" -> 67
      [] c = "R" -> 82 [] c = "S" -> 83 [] c = "\\" -> 92
      [] c = "a" -> 97 [] c = "b" -> 98 [] c = "c" -> 99 [] c = "d" -> 100
      [] c = "e" -> 101 [] c = "f" -> 102 [] c = "g" -> 103 [] c = "h" -> 104
      [] c = "i" -> 105 [] c = "k" -> 107 [] c = "l" -> 108 [] c = "m" -> 109
      [] c = "n" -> 110 [] c = "o" -> 111 [] c = "p" -> 112 [] c = "r" -> 114
      [] c = "s" -> 115 [] c = "t" -> 116 [] c = "u" -> 117 [] c = "x" -> 120
      [] c = "y" -> 121 [] c = "z" -> 122

\* s < t in the byte-wise lexicographic order (Ord for str, and the order in
\* which the trie iterates its keys).
RECURSIVE LexLess(_, _)
LexLess(s, t) ==
    IF Len(t) = 0 THEN FALSE
    ELSE IF Len(s) = 0 THEN TRUE
    ELSE IF Byte(s[1]) # Byte(t[1]) THEN Byte(s[1]) < Byte(t[1])
    ELSE LexLess(Tail(s), Tail(t))

\* The elements of a set of strings in ascending order: the iteration order
\* of a BTreeSet<&str> and of Trie::iter.
RECURSIVE SortedSeq(_)
SortedSeq(S) ==
    IF S = {} THEN <<>>
    ELSE LET m == CHOOSE x \in S : \A y \in S \ {x} : LexLess(x, y)
         IN  <<m>> \o SortedSeq(S \ {m})

\* key is a prefix of path, byte by byte (TrieKey for PathBuf encodes the
\* path as its bytes).
IsBytePrefix(key, path) ==
    /\ Len(key) <= Len(path)
    /\ SubSeq(path, 1, Len(key)) = key

\* The last position of the character c in s, 0 when there is none.
LastIndexOf(s, c) ==
    LET at == { i \in 1..Len(s) : s[i] = c }
    IN  IF at = {} THEN 0 ELSE CHOOSE i \in at : \A j \in at : j <= i

(***************************************************************************)
(* Paths (std::path).                                                      *)
(***************************************************************************)
\* The pieces of p between its separators, the empty ones included.
RECURSIVE Pieces(_, _)
Pieces(p, cur) ==
    IF Len(p) = 0 THEN <<cur>>
    ELSE IF Head(p) = "/" THEN <<cur>> \o Pieces(Tail(p), <<>>)
    ELSE Pieces(Tail(p), Append(cur, Head(p)))

\* Path::has_root
HasRoot(p) == Len(p) > 0 /\ p[1] = "/"

\* The pieces from the i-th on that are components: an empty piece (a repeated
\* or trailing separator) is none, and a "." piece is one only at the start of
\* a relative path.
RECURSIVE NormalFrom(_, _, _)
NormalFrom(ps, i, abs) ==
    IF i > Len(ps) THEN <<>>
    ELSE IF ps[i] = <<>> \/ (ps[i] = <<".">> /\ (abs \/ i > 1))
         THEN NormalFrom(ps, i + 1, abs)
    ELSE <<ps[i]>> \o NormalFrom(ps, i + 1, abs)

\* Path::components: the root directory, written <<"/">>, then the other
\* components.
Components(p) ==
    (IF HasRoot(p) THEN << <<"/">> >> ELSE <<>>)
        \o NormalFrom(Pieces(p, <<>>), 1, HasRoot(p))

\* Path::starts_with: the components of base are the first components of p.
StartsWith(p, base) ==
    /\ Len(Components(base)) <= Len(Components(p))
    /\ SubSeq(Components(p), 1, Len(Components(base))) = Components(base)

\* Path::join: an absolute argument replaces the base; a separator is added
\* unless the base is empty or ends with one.
Join(base, p) ==
    IF HasRoot(p) THEN p
    ELSE IF Len(base) = 0 \/ base[Len(base)] = "/" THEN base \o p
    ELSE base \o <<"/">> \o p

\* p without the separators and "." components it ends with; the root stays.
RECURSIVE TrimRight(_)
TrimRight(p) ==
    IF Len(p) <= 1 THEN p
    ELSE IF p[Len(p)] = "/" THEN TrimRight(SubSeq(p, 1, Len(p) - 1))
    ELSE IF p[Len(p)] = "." /\ p[Len(p) - 1] = "/" THEN TrimRight(SubSeq(p, 1, Len(p) - 1))
    ELSE p

\* Path::parent: the path without its last component; the empty set is None,
\* the parent of the root and of the empty path.
Parent(p) ==
    IF TrimRight(p) \in { <<>>, <<"/">> } THEN {}
    ELSE { TrimRight(SubSeq(TrimRight(p), 1, LastIndexOf(TrimRight(p), "/"))) }

\* Path::file_name: the last component unless it is the root, "." or "..";
\* the empty set is None.
FileName(p) ==
    IF Len(Components(p)) = 0 THEN {}
    ELSE { Components(p)[Len(Components(p))] } \ { <<"/">>, <<".">>, <<".", ".">> }

\* Path::extension: the part of the file name after its last ".", None when
\* there is no "." or only a leading one.
Extension(p) ==
    { SubSeq(n, LastIndexOf(n, ".") + 1, Len(n)) :
        n \in { m \in FileName(p) : LastIndexOf(m, ".") > 1 } }

(***************************************************************************)
(* repository.rs                                                           *)
(***************************************************************************)
\* u8::to_ascii_lowercase on the characters of the model.
Lower(c) ==
    CASE c = "C" -> "c" [] c = "R" -> "r" [] c = "S" -> "s" [] OTHER -> c

\* str::to_ascii_lowercase
to_ascii_lowercase(s) == [ i \in 1..Len(s) |-> Lower(s[i]) ]

ConsideredExtensions ==
    { <<"r", "s">>, <<"c">>, <<"c", "p", "p">>, <<"h">>, <<"h", "p", "p">>,
      <<"c", "c">>, <<"c", "x", "x">>, <<"t", "o", "m", "l">> }

is_considered(path) ==
    \E e \in Extension(path) : to_ascii_lowercase(e) \in ConsideredExtensions

\* println!("Files changed in last commit:")
FilesHeader == "Files changed in last commit:"

\* The result of opening the repository and diffing HEAD against its first
\* parent: the paths of the deltas in the order of the diff; or the error of
\* one of the `?` before the header is printed (no repository at the root,
\* HEAD without a parent); or the error of diff.foreach, after it.
Deltas(paths) == [status |-> "ok", deltas |-> SortedSeq(paths)]
NoRepository == [status |-> "no repository", deltas |-> <<>>]
ForeachError == [status |-> "foreach", deltas |-> <<>>]

\* The result, and the lines written to stdout on the way.
get_changed_source_files(d) ==
    [ ok |-> d.status = "ok",
      files |-> IF d.status = "ok" THEN SelectSeq(d.deltas, is_considered) ELSE <<>>,
      printed |-> IF d.status = "no repository" THEN <<>> ELSE <<FilesHeader>> ]

(***************************************************************************)
(* The workspaces and commits of the model.                                *)
(***************************************************************************)
Root == <<"/", "r">>
DirB == <<"/", "r", "/", "b", ".", "c">>         \* a package that is a git submodule
DirC == <<"/", "r", "/", "c">>
DirA == <<"/", "r", "/", "c", "/", "a">>         \* a member inside the member c
SubDirB == <<"/", "r", "/", "b", ".", "c", "/", "s">>   \* a package inside b.c, never a member
Outside == <<"/", "x", "/", "e">>                \* a path dependency outside the root
ManifestFile == <<"C", "a", "r", "g", "o", ".", "t", "o", "m", "l">>

\* The directories of the members: the root itself (a root package), b.c, c.
MemberDirs == {Root, DirB, DirC}

\* The package names of the model.
NameOf(dir) ==
    CASE dir = Root -> <<"r">> [] dir = DirA -> <<"a">> [] dir = DirB -> <<"b">>
      [] dir = DirC -> <<"c">>

\* cargo_metadata::Dependency: path is None for a registry dependency.
NoPathDep == [has_path |-> FALSE, path |-> <<>>]
PathDep(p) == [has_path |-> TRUE, path |-> p]
DepChoices == {PathDep(DirB), PathDep(DirC), PathDep(SubDirB)}
DepSets == {D \in SUBSET DepChoices : Cardinality(D) <= MaxDeps}

Member(dir, deps) ==
    [name |-> NameOf(dir), manifest_path |-> Join(dir, ManifestFile), dependencies |-> deps]

\* The result of MetadataCommand::exec: the workspace members, or the error
\* of a failed `cargo metadata`.
CargoOk(members) == [ok |-> TRUE, members |-> members]
CargoErr == [ok |-> FALSE, members |-> {}]

\* The chain a -> b -> c, a also with a registry dependency and a path
\* dependency outside the root; the cycle b <-> c; and the root package and
\* c, which depend on each other, c also on the package b.c that is no member.
Chain ==
    { Member(DirA, {PathDep(DirB), NoPathDep, PathDep(Outside)}),
      Member(DirB, {PathDep(DirC)}),
      Member(DirC, {}) }
Cycle ==
    { Member(DirA, {}), Member(DirB, {PathDep(DirC)}), Member(DirC, {PathDep(DirB)}) }
RootCycle ==
    { Member(Root, {PathDep(DirC)}), Member(DirC, {PathDep(DirB), PathDep(Root)}) }

\* The workspaces cargo reports: a non-empty set of member directories, each
\* with its path dependencies.  A dependency inside the root is a member's
\* directory, the directory of a package that is no member (b.c or c left
\* out of the workspace), or a directory inside a member's (b.c/s).
Metadatas ==
    { CargoOk(w) :
        w \in UNION { { { Member(d, f[d]) : d \in M } : f \in [M -> DepSets] } :
                      M \in (SUBSET MemberDirs) \ { {} } }
              \cup {Chain, Cycle, RootCycle} }

\* The paths of a commit's deltas, relative to the root: a file in c, a file
\* in c/a with an upper-case extension, the submodule b.c itself, a file in
\* the directory cb next to c, a file that is no source file.
DiffChoices ==
    { <<"c", "/", "f", ".", "h">>, <<"c", "/", "a", "/", "f", ".", "R", "S">>,
      <<"b", ".", "c">>, <<"c", "b", "/", "f", ".", "r", "s">>,
      <<"c", "/", "f", ".", "m", "d">> }
Diffs == { Deltas(F) : F \in { G \in SUBSET DiffChoices : Cardinality(G) <= MaxFiles } }

(***************************************************************************)
(* cargo.rs                                                                *)
(***************************************************************************)
check_path(root, dep) ==
    IF dep.has_path THEN StartsWith(dep.path, root) ELSE FALSE

\* The trie as a function from the key (the manifest's parent directory) to
\* the Package; status is "err" when `cargo metadata` fails and "panic" when
\* a manifest path has no parent (the unwrap of cargo.rs:43).
find_packages(root, md) ==
    IF ~md.ok THEN [status |-> "err", trie |-> << >>]
    ELSE IF \E m \in md.members : Parent(m.manifest_path) = {}
         THEN [status |-> "panic", trie |-> << >>]
    ELSE [ status |-> "ok",
           trie |->
             [ dir \in UNION { Parent(m.manifest_path) : m \in md.members } |->
                 LET m == CHOOSE x \in md.members : Parent(x.manifest_path) = {dir}
                 IN  [ name |-> m.name,
                       manifest |-> m.manifest_path,
                       dependencies |->
                         { d.path : d \in { x \in m.dependencies : check_path(root, x) } } ] ] ]

(***************************************************************************)
(* The ownership lookup and the closure (main.rs:157-185).                 *)
(***************************************************************************)
\* The longest key of the trie that is a prefix of the path, if any.
AncestorKey(trie, path) ==
    LET keys == { k \in DOMAIN trie : IsBytePrefix(k, path) }
    IN  { k \in keys : \A o \in keys : Len(o) <= Len(k) }

\* Trie::get_ancestor_value: the value of the longest key that is a prefix of
\* the path; the empty set is None.
get_ancestor_value(trie, path) == { trie[k] : k \in AncestorKey(trie, path) }

\* BTreeSet<PathBuf>::contains: Eq and Ord of PathBuf compare the components.
contains(set, p) == \E q \in set : Components(q) = Components(p)

\* BTreeSet<PathBuf>::insert: a path equal to an element is not added.
insert(set, p) == IF contains(set, p) THEN set ELSE set \cup {p}

\* SeedFile with the owner looked up by the exact key instead of the longest
\* prefix.
SeedFile_ExactKey(trie, root, st, file) ==
    IF Join(root, file) \in DOMAIN trie
    THEN [ changed_packages |-> insert(st.changed_packages, Join(root, file)),
           end_package_names |-> st.end_package_names \cup {trie[Join(root, file)].name} ]
    ELSE st

\* One iteration of the seeding loop (main.rs:161-166).
SeedFile(trie, root, st, file) ==
    LET owner == get_ancestor_value(trie, Join(root, file))
    IN  IF owner # {}
        THEN [ changed_packages |-> insert(st.changed_packages, Join(root, file)),
               end_package_names |-> st.end_package_names \cup { p.name : p \in owner } ]
        ELSE st

\* val.dependencies.iter().any(|x| changed_packages.contains(x)) (main.rs:174-177)
DependsOnChanged(val, changed) ==
    \E x \in val.dependencies : contains(changed, x)

\* One iteration of the for loop over the trie (main.rs:173-184).
VisitPackage(trie, root, st, key) ==
    IF DependsOnChanged(trie[key], st.changed_packages)
    THEN LET owner == get_ancestor_value(trie, Join(root, key))
         IN  IF owner # {}
             THEN [ changed_packages |-> insert(st.changed_packages, Join(root, key)),
                    end_package_names |-> st.end_package_names \cup { p.name : p \in owner } ]
             ELSE st
    ELSE st

\* Trie::iter visits the keys in ascending byte order.
TrieIterKeys(trie) == SortedSeq(DOMAIN trie)

(***************************************************************************)
(* Command templates (minijinja).  A template is a sequence of nodes:      *)
(*   Lit(t)           the literal text t                                   *)
(*   For(v, pre, post)  {% for x in v %}pre{{ x }}post{% endfor %}         *)
(*   Attr(v, a)       {{ v.a }}                                            *)
(***************************************************************************)
Lit(t) == [kind |-> "lit", var |-> "", attr |-> "", pre |-> t, post |-> <<>>]
For(v, pre, post) == [kind |-> "for", var |-> v, attr |-> "", pre |-> pre, post |-> post]
Attr(v, a) == [kind |-> "attr", var |-> v, attr |-> a, pre |-> <<>>, post |-> <<>>]

Cargo == <<"c", "a", "r", "g", "o">>
Sp == <<" ">>
DashP == <<" ", "-", "p", " ">>

\* "cargo <sub> {% for pkg in packages %} -p {{ pkg }} {% endfor %}
\*  {% for arg in args %} {{ arg }} {% endfor %}"
BuiltinTemplate(sub) ==
    << Lit(Cargo \o Sp \o sub \o Sp), For("packages", DashP, Sp), Lit(Sp),
       For("args", Sp, Sp) >>

CARGO_TEST_TEMPLATE == BuiltinTemplate(<<"t", "e", "s", "t">>)
CARGO_NEXTEST_TEMPLATE == BuiltinTemplate(<<"n", "e", "x", "t", "e", "s", "t">>)
CARGO_BUILD_TEMPLATE == BuiltinTemplate(<<"b", "u", "i", "l", "d">>)
CARGO_BENCH_TEMPLATE == BuiltinTemplate(<<"b", "u", "i", "l", "d">>)

\* RunCommand::command: the template of the subcommand; the empty set is None.
command(sc) ==
    CASE sc.kind = "test" -> {CARGO_TEST_TEMPLATE}
      [] sc.kind = "nextest" -> {CARGO_NEXTEST_TEMPLATE}
      [] sc.kind = "build" -> {CARGO_BUILD_TEMPLATE}
      [] sc.kind = "bench" -> {CARGO_BENCH_TEMPLATE}
      [] sc.kind = "run" -> sc.command

\* Template::undeclared_variables(nested): the names the template looks up;
\* with nested set, an attribute lookup v.a is reported as the dotted name.
\* A name is the sequence of its dotted parts.
undeclared_variables(template, nested) ==
    { IF template[i].kind = "attr" /\ nested
        THEN <<template[i].var, template[i].attr>>
        ELSE <<template[i].var>> :
      i \in { j \in 1..Len(template) : template[j].kind # "lit" } }

\* generate_exclude_list without its filter.
generate_exclude_list_NoFilter(pkgs, included_packages) ==
    { x.name : x \in pkgs }

generate_exclude_list(pkgs, included_packages) ==
    { x.name : x \in { p \in pkgs : p.name \notin included_packages } }

TrieValues(trie) == { trie[k] : k \in DOMAIN trie }

SupportedNames == { <<"packages">>, <<"excludes">>, <<"args">> }

\* The variables map built by the loop of generate_command (main.rs:103-123)
\* when no name is rejected: each referenced name with its list.
Variables(names, trie, included_packages, xargs) ==
    [ n \in names \cap SupportedNames |->
        CASE n = <<"packages">> -> SortedSeq(included_packages)
          [] n = <<"excludes">> ->
                SortedSeq(generate_exclude_list(TrieValues(trie), included_packages))
          [] n = <<"args">> -> xargs ]

RECURSIVE RenderItems(_, _, _)
RenderItems(items, pre, post) ==
    IF Len(items) = 0 THEN <<>>
    ELSE pre \o Head(items) \o post \o RenderItems(Tail(items), pre, post)

\* Template::render: no escaping (the template is named "cmd"), no trimming;
\* an undefined value renders as nothing.
RECURSIVE Render(_, _)
Render(template, variables) ==
    IF Len(template) = 0 THEN <<>>
    ELSE LET n == Head(template)
             out == CASE n.kind = "lit" -> n.pre
                      [] n.kind = "for" ->
                            IF <<n.var>> \in DOMAIN variables
                            THEN RenderItems(variables[<<n.var>>], n.pre, n.post)
                            ELSE <<>>
                      [] n.kind = "attr" -> <<>>
         IN  out \o Render(Tail(template), variables)

(***************************************************************************)
(* shell_words::split.  The strings of the model hold no tab, newline, $   *)
(* or backquote, so the branches of split for those characters are left    *)
(* out.                                                                    *)
(***************************************************************************)
IsBlank(c) == c = " "

\* The state machine of shell_words::split over the rest of the input: st is
\* the lexer state, word the word being built, words the words so far.
RECURSIVE SplitFrom(_, _, _, _)
SplitFrom(s, st, word, words) ==
    IF Len(s) = 0
    THEN CASE st \in {"Delimiter", "Comment"} -> [ok |-> TRUE, words |-> words]
           [] st = "Unquoted" -> [ok |-> TRUE, words |-> Append(words, word)]
           [] st \in {"Backslash", "UnquotedBackslash"} ->
                 [ok |-> TRUE, words |-> Append(words, Append(word, "\\"))]
           [] OTHER -> [ok |-> FALSE, words |-> <<>>]
    ELSE LET c == Head(s)
             r == Tail(s)
         IN  CASE st = "Delimiter" ->
                     CASE c = "'" -> SplitFrom(r, "SingleQuoted", word, words)
                       [] c = "\"" -> SplitFrom(r, "DoubleQuoted", word, words)
                       [] c = "\\" -> SplitFrom(r, "Backslash", word, words)
                       [] IsBlank(c) -> SplitFrom(r, "Delimiter", word, words)
                       [] c = "#" -> SplitFrom(r, "Comment", word, words)
                       [] OTHER -> SplitFrom(r, "Unquoted", Append(word, c), words)
               [] st \in {"Backslash", "UnquotedBackslash"} ->
                     SplitFrom(r, "Unquoted", Append(word, c), words)
               [] st = "Unquoted" ->
                     CASE c = "'" -> SplitFrom(r, "SingleQuoted", word, words)
                       [] c = "\"" -> SplitFrom(r, "DoubleQuoted", word, words)
                       [] c = "\\" -> SplitFrom(r, "UnquotedBackslash", word, words)
                       [] IsBlank(c) -> SplitFrom(r, "Delimiter", <<>>, Append(words, word))
                       [] OTHER -> SplitFrom(r, "Unquoted", Append(word, c), words)
               [] st = "SingleQuoted" ->
                     CASE c = "'" -> SplitFrom(r, "Unquoted", word, words)
                       [] OTHER -> SplitFrom(r, "SingleQuoted", Append(word, c), words)
               [] st = "DoubleQuoted" ->
                     CASE c = "\"" -> SplitFrom(r, "Unquoted", word, words)
                       [] c = "\\" -> SplitFrom(r, "DoubleQuotedBackslash", word, words)
                       [] OTHER -> SplitFrom(r, "DoubleQuoted", Append(word, c), words)
               [] st = "DoubleQuotedBackslash" ->
                     CASE c \in {"\"", "\\"} ->
                            SplitFrom(r, "DoubleQuoted", Append(word, c), words)
                       [] OTHER ->
                            SplitFrom(r, "DoubleQuoted", Append(Append(word, "\\"), c), words)
               [] st = "Comment" -> SplitFrom(r, "Comment", word, words)

split(s) == SplitFrom(s, "Delimiter", <<>>, <<>>)

(***************************************************************************)
(* generate_command (main.rs:92-136).                                      *)
(***************************************************************************)
CmdOk(words) ==
    [ok |-> TRUE, error |-> "", name |-> <<>>, exe |-> Head(words), argv |-> Tail(words)]
CmdErr(e, n) ==
    [ok |-> FALSE, error |-> e, name |-> n, exe |-> <<>>, argv |-> <<>>]
NoCmd == [ok |-> FALSE, error |-> "none", name |-> <<>>, exe |-> <<>>, argv |-> <<>>]

\* The template rendered and split.
RenderAndSplit(template, variables) ==
    LET parts == split(Render(template, variables))
    IN  IF ~parts.ok THEN { CmdErr("ParseError", <<>>) }
        ELSE IF Len(parts.words) = 0 THEN { CmdErr("No program name", <<>>) }
        ELSE { CmdOk(parts.words) }

\* generate_command with the unsupported names ignored instead of rejected.
generate_command_Lenient(template, trie, included_packages, xargs) ==
    RenderAndSplit(template,
                   Variables(undeclared_variables(template, TRUE), trie,
                             included_packages, xargs))

\* The results generate_command can return.  The names are visited in the
\* order of a HashSet, so with several unsupported names the error names any
\* one of them.
generate_command(template, trie, included_packages, xargs) ==
    LET variable_names == undeclared_variables(template, TRUE)
        unsupported == variable_names \ SupportedNames
    IN  IF unsupported # {}
        THEN { CmdErr("Unsupported variable", n) : n \in unsupported }
        ELSE RenderAndSplit(template,
                            Variables(variable_names, trie, included_packages, xargs))

(***************************************************************************)
(* The command lines of the model.                                         *)
(***************************************************************************)
Prog == <<"x">>
\* x{% for p in packages %} -p {{ p }}{% endfor %}{% for e in excludes %} -e {{ e }}{% endfor %}
TemplateExcludes ==
    << Lit(Prog), For("packages", DashP, <<>>), For("excludes", <<" ", "-", "e", " ">>, <<>>) >>
\* x{% for u in unknown %} {{ u }}{% endfor %}
TemplateUnknown == << Lit(Prog), For("unknown", Sp, <<>>) >>
\* x{% for u in unknown %} {{ u }}{% endfor %}{% for o in other %} {{ o }}{% endfor %}
TemplateTwoUnknown == << Lit(Prog), For("unknown", Sp, <<>>), For("other", Sp, <<>>) >>
\* x {{ packages.first }}
TemplateAttr == << Lit(Prog \o Sp), Attr("packages", "first") >>
\* x {{ args.first }}{% for u in unknown %} {{ u }}{% endfor %}
TemplateAttrUnknown == << Lit(Prog \o Sp), Attr("args", "first"), For("unknown", Sp, <<>>) >>
\* {% for a in args %}{{ a }}{% endfor %}
TemplateArgsOnly == << For("args", <<>>, <<>>) >>

RunTemplates ==
    { TemplateExcludes, TemplateUnknown, TemplateTwoUnknown, TemplateAttr,
      TemplateAttrUnknown, TemplateArgsOnly }

Builtin(k) == [kind |-> k, command |-> {}]
Run(c) == [kind |-> "run", command |-> c]
BuiltinKinds == {"test", "nextest", "build", "bench"}
Subcommands ==
    { Builtin(k) : k \in BuiltinKinds } \cup { Run({}) } \cup { Run({t}) : t \in RunTemplates }

\* RunCommand::parse(): only the run subcommand takes --command.
parse(sc) == sc.kind = "run" \/ sc.command = {}

\* delta_cmd test --command x
BadCommandLine == [kind |-> "test", command |-> { << Lit(Prog) >> }]

\* Extra arguments: a plain word, a word with a space, a lone quote, the empty
\* string, a double-quoted word with a space, an escaped space, a word that
\* starts a comment.
ArgChoices ==
    { <<"y">>, <<"y", " ", "z">>, <<"'">>, <<>>, <<"\"", "y", " ", "z", "\"">>,
      <<"y", "\\", " ", "z">>, <<"#", "y">> }

RECURSIVE SeqsUpTo(_, _)
SeqsUpTo(S, n) ==
    IF n = 0 THEN { <<>> }
    ELSE LET shorter == SeqsUpTo(S, n - 1)
         IN  shorter \cup { Append(q, x) : q \in shorter, x \in S }
ArgLists == SeqsUpTo(ArgChoices, MaxArgs)

ExitCodes == {0, 1, 2}
NotExited == -1
NoChild == [state |-> "none", code |-> NotExited]

(***************************************************************************)
(* main (main.rs:138-215).                                                 *)
(***************************************************************************)
\* The inputs of a run: what cargo metadata and the diff return, and the
\* command line.
Inputs(mds, diffs, clis, argLists) ==
    { [metadata |-> m, diff |-> d, cli |-> c, args |-> a] :
        m \in mds, d \in diffs, c \in clis, a \in argLists }

InitWith(inputs) ==
    /\ pc = "parse"
    /\ \E in \in inputs :
          /\ metadata = in.metadata
          /\ diff = in.diff
          /\ subcommand = in.cli[1]
          /\ no_run = in.cli[2]
          /\ args = in.args
    /\ considered_files = << >>
    /\ file_idx = 1
    /\ packages = << >>
    /\ trie_keys = << >>
    /\ scan_idx = 1
    /\ changed_packages = {}
    /\ end_package_names = {}
    /\ changed_packages_previous = 0
    /\ scans = 0
    /\ cmd = NoCmd
    /\ printed = << >>
    /\ spawned = 0
    /\ child = NoChild
    /\ exit_code = NotExited

\* A small choice of command lines: no command, a built-in one run and
\* printed, a template that is rejected.
FewCommands ==
    { <<Run({}), FALSE>>, <<Builtin("test"), FALSE>>, <<Builtin("test"), TRUE>>,
      <<Run({TemplateUnknown}), FALSE>> }

\* The runs that end before the closure: a command line clap rejects, a root
\* that is no repository or a HEAD without a parent, a failing diff.foreach,
\* a failing cargo metadata (a workspace without members among others).
FailingInputs ==
    Inputs({CargoOk(Chain)}, {Deltas({})}, {<<BadCommandLine, FALSE>>}, { <<>> })
      \cup Inputs({CargoOk(Chain)}, {NoRepository, ForeachError}, {<<Run({}), FALSE>>}, { <<>> })
      \cup Inputs({CargoErr}, {Deltas({})}, {<<Run({}), FALSE>>}, { <<>> })

\* Every workspace of the model, with a small choice of command lines.
Init == InitWith(Inputs(Metadatas, Diffs, FewCommands, { <<>> }) \cup FailingInputs)

\* RunCommand::parse() returns the subcommand.
ParseArgs ==
    /\ pc = "parse"
    /\ parse(subcommand)
    /\ pc' = "diff"
    /\ UNCHANGED <<metadata, diff, considered_files, file_idx, packages, trie_keys, scan_idx,
                   changed_packages, end_package_names, changed_packages_previous,
                   scans, subcommand, no_run, args, cmd, printed, spawned, child,
                   exit_code>>

\* RunCommand::parse() prints the usage error and exits with status 2.
ParseFail ==
    /\ pc = "parse"
    /\ ~parse(subcommand)
    /\ exit_code' = 2
    /\ pc' = "done"
    /\ UNCHANGED <<metadata, diff, considered_files, file_idx, packages, trie_keys, scan_idx,
                   changed_packages, end_package_names, changed_packages_previous,
                   scans, subcommand, no_run, args, cmd, printed, spawned, child>>

\* let considered_files = repository::get_changed_source_files(&root)?;
ChangedFiles ==
    /\ pc = "diff"
    /\ get_changed_source_files(diff).ok
    /\ considered_files' = get_changed_source_files(diff).files
    /\ printed' = printed \o get_changed_source_files(diff).printed
    /\ pc' = "find"
    /\ UNCHANGED <<metadata, diff, file_idx, packages, trie_keys, scan_idx,
                   changed_packages, end_package_names, changed_packages_previous,
                   scans, subcommand, no_run, args, cmd, spawned, child, exit_code>>

\* get_changed_source_files(&root)? returns the error: main returns Err, exit
\* status 1, with the header on stdout when the error is diff.foreach's.
ChangedFilesFail ==
    /\ pc = "diff"
    /\ ~get_changed_source_files(diff).ok
    /\ printed' = printed \o get_changed_source_files(diff).printed
    /\ exit_code' = 1
    /\ pc' = "done"
    /\ UNCHANGED <<metadata, diff, considered_files, file_idx, packages, trie_keys, scan_idx,
                   changed_packages, end_package_names, changed_packages_previous,
                   scans, subcommand, no_run, args, cmd, spawned, child>>

\* let packages = cargo::find_packages(&root)?;
FindPackages ==
    /\ pc = "find"
    /\ find_packages(Root, metadata).status = "ok"
    /\ packages' = find_packages(Root, metadata).trie
    /\ trie_keys' = TrieIterKeys(find_packages(Root, metadata).trie)
    /\ pc' = "seed"
    /\ UNCHANGED <<metadata, diff, considered_files, file_idx, scan_idx, changed_packages,
                   end_package_names, changed_packages_previous, scans, subcommand,
                   no_run, args, cmd, printed, spawned, child, exit_code>>

\* cargo::find_packages(&root)? returns the error of cargo metadata: main
\* returns Err, exit status 1; or it panics on a manifest path without a
\* parent, exit status 101.
FindPackagesFail ==
    /\ pc = "find"
    /\ find_packages(Root, metadata).status # "ok"
    /\ exit_code' = (IF find_packages(Root, metadata).status = "panic" THEN 101 ELSE 1)
    /\ pc' = "done"
    /\ UNCHANGED <<metadata, diff, considered_files, file_idx, packages, trie_keys, scan_idx,
                   changed_packages, end_package_names, changed_packages_previous,
                   scans, subcommand, no_run, args, cmd, printed, spawned, child>>

Sets == [changed_packages |-> changed_packages, end_package_names |-> end_package_names]

\* One iteration of `for file in &considered_files`.
Seed ==
    /\ pc = "seed"
    /\ file_idx <= Len(considered_files)
    /\ LET st == SeedFile(packages, Root, Sets, considered_files[file_idx])
       IN  /\ changed_packages' = st.changed_packages
           /\ end_package_names' = st.end_package_names
    /\ file_idx' = file_idx + 1
    /\ UNCHANGED <<pc, metadata, diff, considered_files, packages, trie_keys, scan_idx,
                   changed_packages_previous, scans, subcommand, no_run, args, cmd,
                   printed, spawned, child, exit_code>>

\* The seeding loop is over: let mut changed_packages_previous = 0;
SeedDone ==
    /\ pc = "seed"
    /\ file_idx > Len(considered_files)
    /\ changed_packages_previous' = 0
    /\ pc' = "closure"
    /\ UNCHANGED <<metadata, diff, considered_files, file_idx, packages, trie_keys, scan_idx,
                   changed_packages, end_package_names, scans, subcommand, no_run,
                   args, cmd, printed, spawned, child, exit_code>>

\* The while condition with <= for !=.
LoopContinues_LessEq(previous, changed) == previous <= Cardinality(changed)

\* while changed_packages_previous != changed_packages.len()
LoopContinues(previous, changed) == previous # Cardinality(changed)

\* The while condition is true: changed_packages_previous = changed_packages.len()
\* and the for loop over the trie starts.
ScanStart ==
    /\ pc = "closure"
    /\ LoopContinues(changed_packages_previous, changed_packages)
    /\ changed_packages_previous' = Cardinality(changed_packages)
    /\ scan_idx' = 1
    /\ scans' = scans + 1
    /\ pc' = "scan"
    /\ UNCHANGED <<metadata, diff, considered_files, file_idx, packages, trie_keys,
                   changed_packages, end_package_names, subcommand, no_run, args, cmd,
                   printed, spawned, child, exit_code>>

\* One iteration of `for (key, val) in packages.iter()`.
Visit ==
    /\ pc = "scan"
    /\ scan_idx <= Len(trie_keys)
    /\ changed_packages' =
          VisitPackage(packages, Root, Sets, trie_keys[scan_idx]).changed_packages
    /\ end_package_names' =
          VisitPackage(packages, Root, Sets, trie_keys[scan_idx]).end_package_names
    /\ scan_idx' = scan_idx + 1
    /\ UNCHANGED <<pc, metadata, diff, considered_files, file_idx, packages, trie_keys,
                   changed_packages_previous, scans, subcommand, no_run, args, cmd,
                   printed, spawned, child, exit_code>>

\* The for loop is over: back to the while condition.
ScanEnd ==
    /\ pc = "scan"
    /\ scan_idx > Len(trie_keys)
    /\ pc' = "closure"
    /\ UNCHANGED <<metadata, diff, considered_files, file_idx, packages, trie_keys, scan_idx,
                   changed_packages, end_package_names, changed_packages_previous,
                   scans, subcommand, no_run, args, cmd, printed, spawned, child,
                   exit_code>>

\* The while condition is false.
LoopExit ==
    /\ pc = "closure"
    /\ ~LoopContinues(changed_packages_previous, changed_packages)
    /\ pc' = "command"
    /\ UNCHANGED <<metadata, diff, considered_files, file_idx, packages, trie_keys, scan_idx,
                   changed_packages, end_package_names, changed_packages_previous,
                   scans, subcommand, no_run, args, cmd, printed, spawned, child,
                   exit_code>>

\* The branch with the command run only when some package changed.
Branch_OnlyIfChanged(cmdOpt, changed) ==
    IF changed = {} THEN "no change"
    ELSE IF cmdOpt # {} THEN "command"
    ELSE "listing"

\* if let Some(cmd) = args.command() { .. } else if !changed_packages.is_empty()
\* { .. } else { .. }  (main.rs:189-212)
Branch(cmdOpt, changed) ==
    IF cmdOpt # {} THEN "command"
    ELSE IF changed # {} THEN "listing"
    ELSE "no change"

Generated ==
    UNION { generate_command(t, packages, end_package_names, args) : t \in command(subcommand) }

\* generate_command(..)? returns the error: main returns Err, exit status 1.
GenerateFail ==
    /\ pc = "command"
    /\ Branch(command(subcommand), changed_packages) = "command"
    /\ \E r \in Generated :
          /\ ~r.ok
          /\ cmd' = r
    /\ exit_code' = 1
    /\ pc' = "done"
    /\ UNCHANGED <<metadata, diff, considered_files, file_idx, packages, trie_keys, scan_idx,
                   changed_packages, end_package_names, changed_packages_previous,
                   scans, subcommand, no_run, args, printed, spawned, child>>

\* no_run: println!("{:?}", cmd)
DryRun ==
    /\ pc = "command"
    /\ Branch(command(subcommand), changed_packages) = "command"
    /\ no_run
    /\ \E r \in Generated :
          /\ r.ok
          /\ cmd' = r
    /\ printed' = Append(printed, "command")
    /\ exit_code' = 0
    /\ pc' = "done"
    /\ UNCHANGED <<metadata, diff, considered_files, file_idx, packages, trie_keys, scan_idx,
                   changed_packages, end_package_names, changed_packages_previous,
                   scans, subcommand, no_run, args, spawned, child>>

\* cmd.status() starts the child and waits for it.
SpawnChild ==
    /\ pc = "command"
    /\ Branch(command(subcommand), changed_packages) = "command"
    /\ ~no_run
    /\ \E r \in Generated :
          /\ r.ok
          /\ cmd' = r
    /\ spawned' = spawned + 1
    /\ child' = [state |-> "running", code |-> NotExited]
    /\ pc' = "waiting"
    /\ UNCHANGED <<metadata, diff, considered_files, file_idx, packages, trie_keys, scan_idx,
                   changed_packages, end_package_names, changed_packages_previous,
                   scans, subcommand, no_run, args, printed, exit_code>>

\* cmd.status()? fails to start the program: main returns Err.
SpawnFail ==
    /\ pc = "command"
    /\ Branch(command(subcommand), changed_packages) = "command"
    /\ ~no_run
    /\ \E r \in Generated :
          /\ r.ok
          /\ cmd' = r
    /\ child' = [state |-> "failed", code |-> NotExited]
    /\ exit_code' = 1
    /\ pc' = "done"
    /\ UNCHANGED <<metadata, diff, considered_files, file_idx, packages, trie_keys, scan_idx,
                   changed_packages, end_package_names, changed_packages_previous,
                   scans, subcommand, no_run, args, printed, spawned>>

\* The exit status main ends with once cmd.status()? has returned Ok(status):
\* the status is dropped and main returns Ok(()).
StatusOfMain(code) == 0

\* The child exits; cmd.status() returns its ExitStatus.
ChildExit ==
    /\ pc = "waiting"
    /\ \E code \in ExitCodes :
          /\ child' = [state |-> "exited", code |-> code]
          /\ exit_code' = StatusOfMain(code)
    /\ pc' = "done"
    /\ UNCHANGED <<metadata, diff, considered_files, file_idx, packages, trie_keys, scan_idx,
                   changed_packages, end_package_names, changed_packages_previous,
                   scans, subcommand, no_run, args, cmd, printed, spawned>>

\* No command: println!("Changed packages end: `-p {}`", ..)
PrintChanged ==
    /\ pc = "command"
    /\ Branch(command(subcommand), changed_packages) = "listing"
    /\ printed' = Append(printed, "listing")
    /\ exit_code' = 0
    /\ pc' = "done"
    /\ UNCHANGED <<metadata, diff, considered_files, file_idx, packages, trie_keys, scan_idx,
                   changed_packages, end_package_names, changed_packages_previous,
                   scans, subcommand, no_run, args, cmd, spawned, child>>

\* No command: println!("No packages have changed")
PrintNoChange ==
    /\ pc = "command"
    /\ Branch(command(subcommand), changed_packages) = "no change"
    /\ printed' = Append(printed, "no change")
    /\ exit_code' = 0
    /\ pc' = "done"
    /\ UNCHANGED <<metadata, diff, considered_files, file_idx, packages, trie_keys, scan_idx,
                   changed_packages, end_package_names, changed_packages_previous,
                   scans, subcommand, no_run, args, cmd, spawned, child>>

Next ==
    \/ ParseArgs
    \/ ParseFail
    \/ ChangedFiles
    \/ ChangedFilesFail
    \/ FindPackages
    \/ FindPackagesFail
    \/ Seed
    \/ SeedDone
    \/ ScanStart
    \/ Visit
    \/ ScanEnd
    \/ LoopExit
    \/ GenerateFail
    \/ DryRun
    \/ SpawnChild
    \/ SpawnFail
    \/ ChildExit
    \/ PrintChanged
    \/ PrintNoChange

Spec == Init /\ [][Next]_vars

\* Every workspace of the model, with the deltas that seed a package by a
\* file (the file in c) or by its directory (the submodule b.c).
LoopDiffs ==
    { d \in Diffs :
        \A i \in 1..Len(d.deltas) :
            d.deltas[i] \in { <<"c", "/", "f", ".", "h">>, <<"b", ".", "c">> } }
LoopInit == InitWith(Inputs(Metadatas, LoopDiffs, FewCommands, { <<>> }) \cup FailingInputs)

\* main is sequential: a loop that can take its next step takes it.
FairSpec ==
    /\ LoopInit
    /\ [][Next]_vars
    /\ WF_vars(ScanStart) /\ WF_vars(Visit) /\ WF_vars(ScanEnd) /\ WF_vars(LoopExit)

\* The chain and the cycle, with every command line.
CmdInit ==
    InitWith(Inputs({CargoOk(Chain), CargoOk(Cycle)}, Diffs, Subcommands \X BOOLEAN, ArgLists)
               \cup FailingInputs)
CmdSpec == CmdInit /\ [][Next]_vars

(***************************************************************************)
(* Properties.                                                             *)
(***************************************************************************)
AfterClosure == {"command", "waiting", "done"}
\* The run does not end before the closure: the command line parses, the diff
\* and cargo metadata succeed.
Completes ==
    /\ parse(subcommand)
    /\ get_changed_source_files(diff).ok
    /\ find_packages(Root, metadata).status = "ok"
HasTrie == pc \notin {"parse", "diff", "find"} /\ Completes
Converged == pc \in AfterClosure /\ Completes
Ended == pc = "done" /\ Completes
Keys == DOMAIN packages
AllNames == { packages[k].name : k \in Keys }
Affected(k) == packages[k].name \in end_package_names
HasCommand == command(subcommand) # {}
Bench == <<"b", "e", "n", "c", "h">>

\* C1: once the closure loop has converged, a package that has the directory
\* of an affected package among its dependencies is affected too; on the chain
\* a -> b -> c with the only changed file inside c, the affected set is
\* {a, b, c}.
C1_TransitiveClosure ==
    Converged =>
        /\ \A a \in Keys, b \in Keys :
              (b \in packages[a].dependencies /\ Affected(b)) => Affected(a)
        /\ (metadata = CargoOk(Chain) /\ considered_files = << <<"c", "/", "f", ".", "h">> >>)
              => end_package_names = { <<"a">>, <<"b">>, <<"c">> }

\* C2: with a command and no_run false, the tool does not end before the
\* child has exited, and its exit status is the child's (non-zero when the
\* child's is).
C2_ExitStatusPropagation ==
    /\ pc = "waiting" => exit_code = NotExited
    /\ (pc = "done" /\ HasCommand /\ ~no_run /\ child.state = "exited")
          => exit_code = child.code

\* Every changed file already seeded that has an owner has the owner's name in
\* end_package_names.
C3_OwnersSeeded ==
    HasTrie =>
        \A i \in 1..(file_idx - 1) :
            \A p \in get_ancestor_value(packages, Join(Root, considered_files[i])) :
                p.name \in end_package_names

\* A step of the seeding loop on a file without an owner changes neither set.
C3_NoOwnerNoChange ==
    ( /\ pc = "seed"
      /\ file_idx <= Len(considered_files)
      /\ get_ancestor_value(packages, Join(Root, considered_files[file_idx])) = {}
      /\ file_idx' = file_idx + 1 )
        => UNCHANGED <<changed_packages, end_package_names>>

\* C3: every changed file already seeded that has an owner under
\* get_ancestor_value has its owner's name in the affected names, up to and
\* including the final set; and seeding a file without an owner changes
\* neither changed_packages nor end_package_names.
C3_SeedingSoundness == [] C3_OwnersSeeded /\ [][C3_NoOwnerNoChange]_vars

\* Witness of C3: the run is over, and the seeding loop has met a file with an
\* owner and a file without one.
C3_Witness ==
    /\ pc = "done"
    /\ \E i, j \in 1..Len(considered_files) :
          /\ get_ancestor_value(packages, Join(Root, considered_files[i])) # {}
          /\ get_ancestor_value(packages, Join(Root, considered_files[j])) = {}

\* C4: the excludes computed by generate_exclude_list and the affected names
\* are disjoint, and together they are the names of all the packages.
C4_Partition ==
    HasTrie =>
        LET excludes == generate_exclude_list(TrieValues(packages), end_package_names)
        IN  /\ excludes \cap end_package_names = {}
            /\ excludes \cup end_package_names = AllNames

\* Witness of C4: after the closure, some packages are affected and some are
\* excluded.
C4_Witness ==
    /\ pc = "done"
    /\ end_package_names # {}
    /\ generate_exclude_list(TrieValues(packages), end_package_names) # {}

\* The variables a template references, an attribute lookup counted as a
\* reference of its variable.
Nodes(t) == { t[i] : i \in 1..Len(t) }
Referenced(t) == { n.var : n \in { m \in Nodes(t) : m.kind # "lit" } }
Recognized == {"packages", "excludes", "args"}

\* C5 as claimed: a template that references a variable other than packages,
\* excludes and args makes generate_command fail with an error naming that
\* variable, and nothing is spawned or printed; a template that references
\* only those three never fails with the unsupported-variable error.
C5_StrictAllowList ==
    (Ended /\ HasCommand) =>
        \A t \in command(subcommand) :
            /\ Referenced(t) \ Recognized # {} =>
                  /\ cmd.error = "Unsupported variable"
                  /\ cmd.name[1] \in Referenced(t) \ Recognized
                  /\ spawned = 0
                  /\ child.state = "none"
                  /\ printed = <<FilesHeader>>
            /\ Referenced(t) \subseteq Recognized => cmd.error # "Unsupported variable"

\* The references generate_command rejects: a variable other than the three,
\* and any attribute lookup, named variable.attribute.
Rejected(t) ==
    { <<n.var>> : n \in { m \in Nodes(t) : m.kind = "for" /\ m.var \notin Recognized } }
      \cup { <<n.var, n.attr>> : n \in { m \in Nodes(t) : m.kind = "attr" } }

\* C5 as amended: a template that references a variable other than packages,
\* excludes and args, or looks up an attribute of any variable, makes
\* generate_command fail with the unsupported-variable error naming one of
\* those references, and nothing is spawned or printed; a template that
\* references only the three, none through an attribute lookup, never fails
\* with that error.
C5_AllowListOfNames ==
    (Ended /\ HasCommand) =>
        \A t \in command(subcommand) :
            /\ Rejected(t) # {} =>
                  /\ cmd.error = "Unsupported variable"
                  /\ cmd.name \in Rejected(t)
                  /\ spawned = 0
                  /\ child.state = "none"
                  /\ printed = <<FilesHeader>>
                  /\ exit_code = 1
            /\ Rejected(t) = {} => cmd.error # "Unsupported variable"

\* Witness of C5: the run ended on the unsupported-variable error for a
\* template that references a variable other than the three.
C5_Witness ==
    /\ pc = "done"
    /\ \E t \in command(subcommand) : Referenced(t) \ Recognized # {}
    /\ cmd.error = "Unsupported variable"

\* The "-p <name>" pairs of a list of names.
RECURSIVE PackageFlags(_)
PackageFlags(names) ==
    IF Len(names) = 0 THEN <<>>
    ELSE << <<"-", "p">>, Head(names) >> \o PackageFlags(Tail(names))

\* C6: with a built-in template, the generated argument vector is the
\* "-p <name>" pairs of the affected packages in sorted order followed by the
\* extra arguments, each as one token equal to the original, in order.
C6_ArgsPassThrough ==
    (Ended /\ subcommand.kind \in BuiltinKinds) =>
        /\ cmd.ok
        /\ Tail(cmd.argv) = PackageFlags(SortedSeq(end_package_names)) \o args

\* C7: after the closure, a package with a dependency path that is a
\* subdirectory of the directory of an affected package, the owner of that
\* path by longest prefix, is affected, here only required when the owner's
\* directory itself is in changed_packages; and the closure ends without an
\* error whatever the dependencies resolve to: one package, several nested
\* ones, or none.
C7_DependencyByPrefix ==
    Converged =>
        /\ \A a \in Keys : \A x \in packages[a].dependencies :
              \A b \in AncestorKey(packages, x) :
                  ( /\ StartsWith(x, b)
                    /\ Components(x) # Components(b)
                    /\ contains(changed_packages, b)
                    /\ Affected(b) ) => Affected(a)
        /\ pc = "command" => exit_code = NotExited

\* The scans started so far are at most the number of packages + 1.
C8_ScansBounded == scans <= Cardinality(Keys) + 1

\* No step after the loop's exit changes either set.
C8_FrozenAfterExit ==
    pc \in AfterClosure => UNCHANGED <<changed_packages, end_package_names>>

\* C8: the while loop exits, after at most (number of packages + 1) scans,
\* and neither set changes after it has exited.
C8_ClosureTerminates ==
    /\ (pc \in {"closure", "scan"}) ~> (pc = "command")
    /\ [] C8_ScansBounded
    /\ [][C8_FrozenAfterExit]_vars

\* Witness of C8: the loop has exited after (number of packages + 1) scans, on
\* a workspace with a dependency cycle (two packages that depend on each
\* other, or a package that depends on itself).
C8_Witness ==
    /\ pc = "command"
    /\ scans >= 2
    /\ scans = Cardinality(Keys) + 1
    /\ \E a \in Keys, b \in Keys :
          a \in packages[b].dependencies /\ b \in packages[a].dependencies

\* C9: with a command that generate_command accepts, the command is printed
\* (no_run) or cmd.status() is called once, whether or not any package is
\* affected, and neither the listing nor "No packages have changed" is
\* printed; without a command nothing is run, the listing is printed exactly
\* when some package is affected, and the message otherwise.
C9_CommandRegardlessOfEmpty ==
    Ended =>
        /\ HasCommand =>
              /\ cmd # NoCmd
              /\ \A i \in 1..Len(printed) : printed[i] \notin {"listing", "no change"}
              /\ (cmd.ok /\ ~no_run) =>
                    /\ child.state \in {"exited", "failed"}
                    /\ spawned = (IF child.state = "exited" THEN 1 ELSE 0)
                    /\ printed = <<FilesHeader>>
              /\ (cmd.ok /\ no_run) =>
                    /\ printed = <<FilesHeader, "command">>
                    /\ spawned = 0
                    /\ child.state = "none"
        /\ ~HasCommand =>
              /\ spawned = 0
              /\ child.state = "none"
              /\ cmd = NoCmd
              /\ printed = <<FilesHeader, "listing">> <=> end_package_names # {}
              /\ printed = <<FilesHeader, "no change">> <=> end_package_names = {}

\* Witness of C9: a command was run to its end although no package is
\* affected.
C9_Witness ==
    /\ pc = "done"
    /\ HasCommand
    /\ end_package_names = {}
    /\ spawned = 1
    /\ child.state = "exited"

\* The cargo subcommand a built-in subcommand is named after.
CargoName(kind) ==
    CASE kind = "test" -> <<"t", "e", "s", "t">>
      [] kind = "nextest" -> <<"n", "e", "x", "t", "e", "s", "t">>
      [] kind = "build" -> <<"b", "u", "i", "l", "d">>
      [] kind = "bench" -> Bench

\* C10: the command of a built-in subcommand is cargo followed by the cargo
\* subcommand of the same name, and two different built-in subcommands never
\* generate the same command.
C10_BuiltinTemplates ==
    (pc = "done" /\ subcommand.kind \in BuiltinKinds /\ cmd.ok) =>
        /\ cmd.exe = Cargo
        /\ cmd.argv[1] = CargoName(subcommand.kind)
        /\ \A k \in BuiltinKinds \ {subcommand.kind} :
              cmd \notin generate_command(CHOOSE t \in command(Builtin(k)) : TRUE,
                                          packages, end_package_names, args)

====
